---- MODULE Spec2Model ----
(***************************************************************************)
(* Model of the Android PDF export plugin (src/main.ts, lines 1-404).      *)
(*                                                                         *)
(* Strings are sequences of one-character strings, so that startsWith,     *)
(* split, pop, toLowerCase and decodeURIComponent are computed the way the *)
(* code computes them.  Opaque payloads (a MIME type, a byte buffer) are   *)
(* single tokens inside such a sequence.                                   *)
(***************************************************************************)
EXTENDS Integers, Sequences, FiniteSets, TLC

\* ------------------------------------------------------------------ bounds
MaxExports == 2
MaxNodes == 2
MaxPre == 1
MaxPasses == 2

\* ----------------------------------------------------------- string helpers
Range(s) == {s[i] : i \in 1..Len(s)}

StartsWith(s, p) == Len(s) >= Len(p) /\ SubSeq(s, 1, Len(p)) = p

\* Positions of character c in s.
IndexesOf(s, c) == {i \in 1..Len(s) : s[i] = c}

Min(S) == CHOOSE x \in S : \A y \in S : x <= y
Max(S) == CHOOSE x \in S : \A y \in S : x >= y

\* s.split(c)[0]
BeforeFirst(s, c) ==
    IF IndexesOf(s, c) = {} THEN s ELSE SubSeq(s, 1, Min(IndexesOf(s, c)) - 1)

\* s.split(c).pop()
AfterLast(s, c) ==
    IF IndexesOf(s, c) = {} THEN s ELSE SubSeq(s, Max(IndexesOf(s, c)) + 1, Len(s))

UpperChars == <<"A", "B", "E", "G", "H", "I", "J", "M", "N", "P", "S", "V", "W">>
LowerChars == <<"a", "b", "e", "g", "h", "i", "j", "m", "n", "p", "s", "v", "w">>

LowerChar(c) ==
    IF \E k \in 1..Len(UpperChars) : UpperChars[k] = c
    THEN LowerChars[CHOOSE k \in 1..Len(UpperChars) : UpperChars[k] = c]
    ELSE c

\* String.prototype.toLowerCase
ToLowerCase(s) == [i \in 1..Len(s) |-> LowerChar(s[i])]

\* The characters the class [a-z0-9] with the i flag matches.
AlnumChars ==
    Range(UpperChars) \cup Range(LowerChars)
        \cup {"c", "d", "f", "o", "t", "x", "z", "Z", "0", "1", "2", "9"}

HexDigits == <<"0", "1", "2", "3", "4", "5", "6", "7", "8", "9",
               "A", "B", "C", "D", "E", "F">>
IsHex(c) == \E k \in 1..16 : HexDigits[k] = c \/ HexDigits[k] = ToLowerCase(<<c>>)[1]
HexVal(c) == (CHOOSE k \in 1..16 : HexDigits[k] = c \/ HexDigits[k] = ToLowerCase(<<c>>)[1]) - 1

\* The character of an ASCII code; the codes the model's references do not
\* use are not told apart.
CharOf(code) ==
    CASE code = 32 -> " "
      [] code = 37 -> "%"
      [] code = 46 -> "."
      [] code = 47 -> "/"
      [] code = 63 -> "?"
      [] OTHER -> "~"

\* decodeURIComponent: [ok |-> FALSE] stands for the URIError it throws on
\* a '%' not followed by two hex digits, or on an escape that is no complete
\* UTF-8 sequence (here: any single escaped byte >= 0x80).
RECURSIVE decodeURIComponent(_)
decodeURIComponent(s) ==
    IF s = <<>> THEN [ok |-> TRUE, val |-> <<>>]
    ELSE IF s[1] # "%"
    THEN LET r == decodeURIComponent(Tail(s))
         IN  [ok |-> r.ok, val |-> IF r.ok THEN <<s[1]>> \o r.val ELSE <<>>]
    ELSE IF Len(s) < 3 \/ ~IsHex(s[2]) \/ ~IsHex(s[3])
    THEN [ok |-> FALSE, val |-> <<>>]
    ELSE LET code == 16 * HexVal(s[2]) + HexVal(s[3])
             r == decodeURIComponent(SubSeq(s, 4, Len(s)))
         IN  IF code >= 128 THEN [ok |-> FALSE, val |-> <<>>]
             ELSE [ok |-> r.ok, val |-> IF r.ok THEN <<CharOf(code)>> \o r.val ELSE <<>>]

\* --------------------------------------------------------------- literals
DataPrefix == <<"d", "a", "t", "a", ":">>
HttpPrefix == <<"h", "t", "t", "p">>

imageExtensions ==
    { <<"p", "n", "g">>, <<"j", "p", "g">>, <<"j", "p", "e", "g">>, <<"g", "i", "f">>,
      <<"b", "m", "p">>, <<"s", "v", "g">>, <<"w", "e", "b", "p">>, <<"h", "e", "i", "c">> }

\* A table that is read with the extension as it is written.
getMimeTypeCaseSensitive(extension) ==
    CASE extension = <<"j", "p", "g">> -> "image/jpeg"
      [] extension = <<"j", "p", "e", "g">> -> "image/jpeg"
      [] extension = <<"w", "e", "b", "p">> -> "image/webp"
      [] extension = <<"g", "i", "f">> -> "image/gif"
      [] extension = <<"s", "v", "g">> -> "image/svg+xml"
      [] extension = <<"b", "m", "p">> -> "image/bmp"
      [] OTHER -> "image/png"

getMimeType(extension) ==
    LET e == ToLowerCase(extension)
    IN  CASE e = <<"j", "p", "g">> -> "image/jpeg"
          [] e = <<"j", "p", "e", "g">> -> "image/jpeg"
          [] e = <<"w", "e", "b", "p">> -> "image/webp"
          [] e = <<"g", "i", "f">> -> "image/gif"
          [] e = <<"s", "v", "g">> -> "image/svg+xml"
          [] e = <<"b", "m", "p">> -> "image/bmp"
          [] OTHER -> "image/png"

\* FileReader.readAsDataURL of a Blob of the given type and bytes.
DataUri(mimeType, bytes) == DataPrefix \o <<mimeType, ";base64,", bytes>>

MissingAlt(originalSrc) == <<"[Image Missing: ">> \o originalSrc \o <<"]">>
RedBorder == "1px solid red"
PlaceholderText == "[Media/Embed not supported in PDF Export]"

\* ------------------------------------------------------------ the vault
\* The documents that can be the active file: a TFile's basename.
Docs == {1, 2}
NoDoc == 0
DocBasename == << <<"N", "-", "1">>, <<"N", "_", "1">> >>

\* The extensions of the attachments m.jpg, m.jpeg, ... of the store.
OtherExtensions ==
    << <<"j", "p", "g">>, <<"j", "p", "e", "g">>, <<"w", "e", "b", "p">>, <<"g", "i", "f">>,
       <<"s", "v", "g">>, <<"b", "m", "p">>, <<"h", "e", "i", "c">>, <<"S", "v", "g">> >>

\* vault.getFiles(): the attachments of the store, in the store's order.
VaultFiles ==
    << [path |-> <<"i", "m", "g", "/", "a", ".", "p", "n", "g">>,
        name |-> <<"a", ".", "p", "n", "g">>, extension |-> <<"p", "n", "g">>,
        bytes |-> "bytes1"],
       [path |-> <<"o", "l", "d", "/", "a", ".", "p", "n", "g">>,
        name |-> <<"a", ".", "p", "n", "g">>, extension |-> <<"p", "n", "g">>,
        bytes |-> "bytes2"],
       [path |-> <<"b", ".", "J", "P", "G">>,
        name |-> <<"b", ".", "J", "P", "G">>, extension |-> <<"J", "P", "G">>,
        bytes |-> "bytes3"] >>
       \o [k \in 1..Len(OtherExtensions) |->
              [path |-> <<"m", ".">> \o OtherExtensions[k],
               name |-> <<"m", ".">> \o OtherExtensions[k],
               extension |-> OtherExtensions[k], bytes |-> "bytes4"]]
       \o << [path |-> <<"k">>, name |-> <<"k">>, extension |-> <<>>, bytes |-> "bytes5"] >>
NoFile == 0
FileIds == 1..Len(VaultFiles)

\* A scan by name that does not tell upper case from lower case.
FindByNameIgnoringCase(linktext) ==
    IF \E f \in FileIds : ToLowerCase(VaultFiles[f].name) = ToLowerCase(linktext)
    THEN Min({f \in FileIds : ToLowerCase(VaultFiles[f].name) = ToLowerCase(linktext)})
    ELSE NoFile

\* vault.getFiles().find(f => f.name === linktext)
FindByName(linktext) ==
    IF \E f \in FileIds : VaultFiles[f].name = linktext
    THEN Min({f \in FileIds : VaultFiles[f].name = linktext})
    ELSE NoFile

\* ------------------------------------------------------------ the tree
\* A node of the rendered container.  parent = 0: a child of the container;
\* parent = Detached: a child of a node that was removed from the tree.
Detached == -1

Node(kind, src, attrs) ==
    [kind |-> kind, parent |-> 0, src |-> src, attrs |-> attrs,
     alt |-> <<>>, border |-> "", text |-> ""]

RefHttpLocal == <<"h", "t", "t", "p", ":", "/", "/", "h", "/", "a", ".", "p", "n", "g">>
RefHttp == <<"h", "t", "t", "p", ":", "/", "/", "h", "/", "z", ".", "g", "i", "f", "?", "v">>
RefMissing == <<"z", ".", "g", "i", "f">>
RefBadEscape == <<"h", "t", "t", "p", ":", "/", "/", "h", "/", "%">>
RefInline == DataUri("image/png", "bytes0")
RefNote == <<"n", "o", "t", "e">>
RefEmbedUpper == <<"b", ".", "J", "P", "G">>
RefHttpDir == <<"h", "t", "t", "p", ":", "/", "/", "h", "/">>
RefLowerName == <<"b", ".", "j", "p", "g">>
RefEscapedQuery == <<"a", ".", "p", "n", "g", "%", "3", "F", "v">>
RefEscapedSlash == <<"x", "%", "2", "f", "a", ".", "p", "n", "g">>
RefQueryBeforeSlash == <<"a", ".", "p", "n", "g", "?", "v", "/", "w">>
RefEmbedPath == <<"i", "m", "g", "/", "a", ".", "p", "n", "g">>
RefEmbedNoDot == <<"p", "n", "g">>
RefEmbedHttp == <<"h", "t", "t", "p", ":", "/", "/", "h", "/", "z", ".", "g", "i", "f">>

ImgTemplates ==
    { Node("img", RefHttpLocal, {"srcset", "data-src", "sizes"}),
      Node("img", RefHttp, {}),
      Node("img", RefMissing, {}),
      Node("img", RefBadEscape, {}),
      Node("img", RefInline, {}),
      Node("img", <<>>, {}) }

\* span.internal-embed, as the renderer leaves it.
EmbedTemplates ==
    { Node("span", RefEmbedUpper, {}),
      Node("span", RefEmbedHttp, {}),
      Node("span", RefNote, {}),
      Node("span", <<>>, {}) }

MediaKinds == {"video", "audio", "iframe"}
MediaTemplates == {Node(k, <<>>, {}) : k \in MediaKinds}

Templates == ImgTemplates \cup EmbedTemplates \cup MediaTemplates

\* The kinds of node the renderer nests other nodes in.
CanParent(kind) == kind \in {"span", "video", "audio"}

RECURSIVE Ancestors(_, _)
\* The ancestors of slot i, i included.
Ancestors(tree, i) ==
    IF i <= 0 THEN {} ELSE {i} \cup Ancestors(tree, tree[i].parent)

\* The slots are in document order: a node follows its parent, and a node's
\* parent is the node before it or one of that node's ancestors.
WellFormed(tree) ==
    \A i \in 1..Len(tree) :
        \/ tree[i].parent = 0
        \/ /\ i > 1
           /\ tree[i].parent \in Ancestors(tree, i - 1)
           /\ CanParent(tree[tree[i].parent].kind)

TreesOver(templates, n) ==
    UNION { { t \in [1..k -> {[tp EXCEPT !.parent = q] : tp \in templates, q \in 0..(n - 1)}] :
                WellFormed(t) } : k \in 0..n }

RECURSIVE Live(_, _)
\* Whether slot i is connected to the container.
Live(tree, i) ==
    IF tree[i].parent = 0 THEN TRUE
    ELSE IF tree[i].parent = Detached THEN FALSE
    ELSE Live(tree, tree[i].parent)

\* container.querySelectorAll(kinds): the connected nodes of these kinds, in
\* document order (a static list).
QuerySelectorAll(tree, kinds) ==
    SelectSeq([i \in 1..Len(tree) |-> i], LAMBDA i : tree[i].kind \in kinds /\ Live(tree, i))

\* old.replaceWith(new): new takes old's place under old's parent; old's
\* children leave with it.
ReplaceWith(tree, i, new) ==
    [j \in 1..Len(tree) |->
        IF j = i THEN [new EXCEPT !.parent = tree[i].parent]
        ELSE IF tree[j].parent = i THEN [tree[j] EXCEPT !.parent = Detached]
        ELSE tree[j]]

\* ------------------------------------------------- processImages, step 1
\* The body of the loop over the embeds (lines 185-199), for the spans
\* embeds[k..] of the static list.
RECURSIVE ConvertEmbeds(_, _, _)
ConvertEmbeds(tree, embeds, k) ==
    IF k > Len(embeds) THEN tree
    ELSE LET span == embeds[k]
             src == tree[span].src
             ext == ToLowerCase(AfterLast(src, "."))
         IN  IF src = <<>> THEN ConvertEmbeds(tree, embeds, k + 1)
             ELSE IF ext # <<>> /\ ext \in imageExtensions
             THEN ConvertEmbeds(
                      ReplaceWith(tree, span, Node("img", src, {"data-is-embed", "style.max-width"})),
                      embeds, k + 1)
             ELSE ConvertEmbeds(tree, embeds, k + 1)

NormalizeEmbeds(tree) == ConvertEmbeds(tree, QuerySelectorAll(tree, {"span"}), 1)

\* ------------------------------------------------------ embedSingleImage
\* One task per slot of the tree; st = "none": no task was started for it.
NoTask ==
    [st |-> "none", orig |-> <<>>, key |-> <<>>, rel |-> NoDoc, dest |-> NoFile, file |-> NoFile,
     buf |-> "", header |-> "", mime |-> "", log |-> <<>>]

\* A key taken from the last segment of the reference as written, decoded
\* and stripped of its query afterwards.
LinktextSegmentFirst(img) ==
    LET segment == decodeURIComponent(AfterLast(img.src, "/"))
    IN  IF "data-is-embed" \in img.attrs THEN [ok |-> TRUE, val |-> img.src]
        ELSE IF ~segment.ok THEN [ok |-> FALSE, val |-> <<>>]
        ELSE [ok |-> TRUE, val |-> BeforeFirst(segment.val, "?")]

\* The name embedSingleImage looks up in the vault (lines 218-228);
\* ok = FALSE when decodeURIComponent throws.
Linktext(img) ==
    LET originalSrc == img.src
        decodedSrc == decodeURIComponent(originalSrc)
    IN  IF "data-is-embed" \in img.attrs THEN [ok |-> TRUE, val |-> originalSrc]
        ELSE IF ~decodedSrc.ok THEN [ok |-> FALSE, val |-> <<>>]
        ELSE [ok |-> TRUE, val |-> AfterLast(BeforeFirst(decodedSrc.val, "?"), "/")]

\* What metadataCache.getFirstLinkpathDest(linktext, sourcePath) can answer:
\* null, or a file of the store that the link names (its last segment is the
\* file's name, whatever the case of the letters).  Which of them the host
\* picks, and whether it finds one, is the host's choice.
LinkDests(linktext) ==
    {NoFile} \cup {f \in FileIds :
                     ToLowerCase(VaultFiles[f].name) = ToLowerCase(AfterLast(linktext, "/"))}

\* Whether embedSingleImage reaches line 236 for this node.
LooksUp(node) ==
    /\ node.kind = "img"
    /\ node.src # <<>>
    /\ ~StartsWith(node.src, DataPrefix)
    /\ Linktext(node).ok

\* A catch block that rethrows: the task's promise rejects.
Rethrown(task, what) == [task EXCEPT !.st = "rejected", !.log = @ \o <<what>>]

\* The catch block of line 272: the error is logged and the task settles.
Caught(task, what) == [task EXCEPT !.st = "done", !.log = @ \o <<what, "caught">>]

\* A failure marker that takes the place of the reference.
MarkMissingOverReference(tree, img, originalSrc) ==
    [tree EXCEPT ![img].alt = MissingAlt(originalSrc), ![img].border = RedBorder,
                 ![img].src = <<>>]

\* The failure marker put on every image of the container.
MarkEveryImage(tree, img, originalSrc) ==
    [j \in 1..Len(tree) |->
        IF tree[j].kind = "img"
        THEN [tree[j] EXCEPT !.alt = MissingAlt(originalSrc), !.border = RedBorder]
        ELSE tree[j]]

\* Lines 267-269.
MarkMissing(tree, img, originalSrc) ==
    [tree EXCEPT ![img].alt = MissingAlt(originalSrc), ![img].border = RedBorder]

\* A rewrite of the reference that leaves the hint attributes in place.
SetInlineKeepingHints(tree, img, base64) == [tree EXCEPT ![img].src = base64]

\* Lines 259-265.
SetInline(tree, img, base64) ==
    [tree EXCEPT ![img].src = base64,
                 ![img].attrs = @ \ {"srcset", "data-src", "data-is-embed", "sizes"}]

\* embedSingleImage from its try block to its first await (lines 217-254
\* and, without a buffer, 266-270), for the image in slot img; dest is the
\* answer of getFirstLinkpathDest, active the workspace's active file at
\* this moment.
EmbedResolve(pipe, img, dest, active) ==
    LET originalSrc == pipe.tree[img].src
        isEmbed == "data-is-embed" \in pipe.tree[img].attrs
        linktext == Linktext(pipe.tree[img]).val
        scanned == dest = NoFile /\ linktext # <<>>
        file == IF scanned THEN FindByName(linktext) ELSE dest
        t0 == [NoTask EXCEPT !.orig = originalSrc]
        t1 == [t0 EXCEPT !.key = linktext, !.rel = active, !.dest = dest, !.file = file,
                         !.log = <<"lookup">> \o (IF scanned THEN <<"scan">> ELSE <<>>)]
    IN  IF ~Linktext(pipe.tree[img]).ok
        THEN [pipe EXCEPT !.tasks[img] = Caught(t0, "decode-throw")]
        ELSE IF file # NoFile
        THEN [pipe EXCEPT !.tasks[img] = [t1 EXCEPT !.st = "read"]]
        ELSE IF ~isEmbed /\ StartsWith(originalSrc, HttpPrefix)
        THEN [pipe EXCEPT !.tasks[img] = [t1 EXCEPT !.st = "fetch"]]
        ELSE [tree |-> MarkMissing(pipe.tree, img, originalSrc),
              tasks |-> [pipe.tasks EXCEPT ![img] = [t1 EXCEPT !.st = "done", !.log = @ \o <<"mark">>]]]

Skipped(pipe, img) ==
    [pipe EXCEPT !.tasks[img] =
        [NoTask EXCEPT !.st = "done", !.orig = pipe.tree[img].src, !.log = <<"skip">>]]

\* An embedSingleImage that skips the images without a reference only.
EmbedStartAnyReference(pipe, img, dest, active) ==
    IF pipe.tree[img].src = <<>> THEN Skipped(pipe, img)
    ELSE EmbedResolve(pipe, img, dest, active)

\* embedSingleImage up to its first await (lines 214-254).
EmbedStart(pipe, img, dest, active) ==
    IF pipe.tree[img].src = <<>> \/ StartsWith(pipe.tree[img].src, DataPrefix)
    THEN Skipped(pipe, img)
    ELSE EmbedResolve(pipe, img, dest, active)

\* vault.readBinary settles (lines 246-247, then 257-258).
ReadSettled(pipe, img, ok) ==
    LET t == pipe.tasks[img]
    IN  IF ok
        THEN [pipe EXCEPT !.tasks[img] =
                 [t EXCEPT !.st = "encode", !.buf = VaultFiles[t.file].bytes,
                           !.mime = getMimeType(VaultFiles[t.file].extension),
                           !.log = @ \o <<"read">>]]
        ELSE [pipe EXCEPT !.tasks[img] = Caught([t EXCEPT !.log = @ \o <<"read">>], "read-throw")]

\* What requestUrl settles with: an error, or a response with or without a
\* content-type header.
FetchOutcomes == {"throw", "image/webp", ""}

\* A fetch that is issued again when it fails for the first time.
FetchSettledWithRetry(pipe, img, outcome) ==
    LET t == pipe.tasks[img]
    IN  IF outcome = "throw" /\ \A k \in 1..Len(t.log) : t.log[k] # "fetch"
        THEN [pipe EXCEPT !.tasks[img] = [t EXCEPT !.log = @ \o <<"fetch">>]]
        ELSE IF outcome # "throw"
        THEN [pipe EXCEPT !.tasks[img] =
                 [t EXCEPT !.st = "encode", !.buf = "body", !.header = outcome,
                           !.mime = IF outcome # "" THEN outcome ELSE "image/png",
                           !.log = @ \o <<"fetch">>]]
        ELSE [pipe EXCEPT !.tasks[img] = Caught([t EXCEPT !.log = @ \o <<"fetch">>], "fetch-throw")]

\* A catch block that marks the node whose fetch failed.
FetchSettledMarkingFailure(pipe, img, outcome) ==
    LET t == pipe.tasks[img]
    IN  IF outcome # "throw"
        THEN [pipe EXCEPT !.tasks[img] =
                 [t EXCEPT !.st = "encode", !.buf = "body", !.header = outcome,
                           !.mime = IF outcome # "" THEN outcome ELSE "image/png",
                           !.log = @ \o <<"fetch">>]]
        ELSE [tree |-> MarkMissing(pipe.tree, img, t.orig),
              tasks |-> [pipe.tasks EXCEPT ![img] =
                            Caught([t EXCEPT !.log = @ \o <<"fetch">>], "fetch-throw")]]

\* requestUrl settles (lines 251-253, then 257-258).
FetchSettled(pipe, img, outcome) ==
    LET t == pipe.tasks[img]
    IN  IF outcome # "throw"
        THEN [pipe EXCEPT !.tasks[img] =
                 [t EXCEPT !.st = "encode", !.buf = "body", !.header = outcome,
                           !.mime = IF outcome # "" THEN outcome ELSE "image/png",
                           !.log = @ \o <<"fetch">>]]
        ELSE [pipe EXCEPT !.tasks[img] = Caught([t EXCEPT !.log = @ \o <<"fetch">>], "fetch-throw")]

\* An encoder that takes the bytes from a buffer the tasks share: the bytes
\* of the first task that is waiting for its encoding.
EncodeSettledSharedBuffer(pipe, img, ok) ==
    LET t == pipe.tasks[img]
        first == CHOOSE k \in 1..Len(pipe.tasks) :
                     /\ pipe.tasks[k].st = "encode"
                     /\ \A j \in 1..(k - 1) : pipe.tasks[j].st # "encode"
        shared == pipe.tasks[first]
    IN  IF ok
        THEN [tree |-> SetInline(pipe.tree, img, DataUri(shared.mime, shared.buf)),
              tasks |-> [pipe.tasks EXCEPT ![img] = [t EXCEPT !.st = "done", !.log = @ \o <<"set">>]]]
        ELSE [pipe EXCEPT !.tasks[img] = Caught(t, "encode-throw")]

\* An encoder without the onerror handler of line 306: when the reader
\* fails, its promise stays pending.
EncodeSettledWithoutOnError(pipe, img, ok) ==
    LET t == pipe.tasks[img]
    IN  IF ok
        THEN [tree |-> SetInline(pipe.tree, img, DataUri(t.mime, t.buf)),
              tasks |-> [pipe.tasks EXCEPT ![img] = [t EXCEPT !.st = "done", !.log = @ \o <<"set">>]]]
        ELSE [pipe EXCEPT !.tasks[img].st = "pending"]

\* arrayBufferToBase64Async settles (lines 258-265).
EncodeSettled(pipe, img, ok) ==
    LET t == pipe.tasks[img]
    IN  IF ok
        THEN [tree |-> SetInline(pipe.tree, img, DataUri(t.mime, t.buf)),
              tasks |-> [pipe.tasks EXCEPT ![img] = [t EXCEPT !.st = "done", !.log = @ \o <<"set">>]]]
        ELSE [pipe EXCEPT !.tasks[img] = Caught(t, "encode-throw")]

\* images.map(...) of lines 202-205: every task runs to its first await, in
\* the order of the list.
RECURSIVE StartTasks(_, _, _, _, _)
StartTasks(pipe, images, k, dests, active) ==
    IF k > Len(images) THEN pipe
    ELSE StartTasks(EmbedStart(pipe, images[k], dests[images[k]], active),
                    images, k + 1, dests, active)

\* The answers getFirstLinkpathDest can give for the images of a tree whose
\* embeds are normalized: one per slot, NoFile where it is not asked.
RECURSIVE DestChoices(_)
DestChoices(tree) ==
    IF tree = <<>> THEN {<<>>}
    ELSE LET i == Len(tree)
             answers == IF LooksUp(tree[i]) /\ Live(tree, i)
                        THEN LinkDests(Linktext(tree[i]).val) ELSE {NoFile}
         IN  {Append(dests, d) : dests \in DestChoices(SubSeq(tree, 1, i - 1)), d \in answers}

\* A processImages that collects the images before it converts the embeds.
ProcessImagesCollectFirst(tree, dests, active) ==
    StartTasks([tree |-> NormalizeEmbeds(tree), tasks |-> [i \in 1..Len(tree) |-> NoTask]],
               QuerySelectorAll(tree, {"img"}), 1, dests, active)

\* processImages up to its await of Promise.all (lines 183-207).
ProcessImagesStart(tree, dests, active) ==
    LET normalized == NormalizeEmbeds(tree)
    IN  StartTasks([tree |-> normalized, tasks |-> [i \in 1..Len(tree) |-> NoTask]],
                   QuerySelectorAll(normalized, {"img"}), 1, dests, active)

\* The state of Promise.all(promises).
Settled(tasks) == \A i \in 1..Len(tasks) : tasks[i].st \in {"none", "done"}
Rejected(tasks) == \E i \in 1..Len(tasks) : tasks[i].st = "rejected"

\* ------------------------------------------------------ sanitizeElements
Placeholder ==
    [Node("div", <<>>, {}) EXCEPT !.text = PlaceholderText, !.border = "1px dashed #ccc"]

RECURSIVE ReplaceMedia(_, _, _)
ReplaceMedia(tree, els, k) ==
    IF k > Len(els) THEN tree
    ELSE ReplaceMedia(ReplaceWith(tree, els[k], Placeholder), els, k + 1)

\* A sanitizer whose selector names the videos and the iframes only.
sanitizeVideosAndFrames(tree) ==
    ReplaceMedia(tree, QuerySelectorAll(tree, {"video", "iframe"}), 1)

sanitizeElements(tree) == ReplaceMedia(tree, QuerySelectorAll(tree, MediaKinds), 1)

\* ---------------------------------------------- createUniqueExportFolder
\* basename.replace(/[^a-z0-9]/gi, '_')
safeBasename(basename) ==
    [k \in 1..Len(basename) |-> IF basename[k] \in AlnumChars THEN basename[k] ELSE "_"]

ExportSuffix == <<"-", "E", "x", "p", "o", "r", "t">>

\* `${i}` for the values of i the loop reaches in the model.
Digits == <<"1", "2", "3", "4", "5", "6", "7", "8", "9">>
NumberString(i) == <<Digits[i]>>

\* The name tried at probe i: folderName for i = 0 (line 163), and
\* `${folderName}-${i}` in the loop (line 170).
Candidate(basename, i) ==
    LET folderName == safeBasename(basename) \o ExportSuffix
    IN  IF i = 0 THEN folderName ELSE folderName \o <<"-">> \o NumberString(i)

IndexPath(folderName) == folderName \o <<"/", "index.html">>

\* ------------------------------------------------------------- notices
NoticeNoFile == <<"No active file selected.">>
NoticeGenerating == <<"Generating HTML for printing...">>
NoticeFailed == <<"PDF Export failed. Check console for details.">>
NoticeExported(folderName) == <<"Exported to: ">> \o folderName

\* ---------------------------------------------------------------- state
VARIABLES
    exports,      \* the invocations of generatePdf, by slot
    vaultPaths,   \* the paths that exist in the vault (folders and files)
    written,      \* the files created by createBinary: [path, by]
    body,         \* the temporary containers attached to document.body
    activeFile    \* workspace.getActiveFile()

vars == <<exports, vaultPaths, written, body, activeFile>>

Slots == 1..MaxExports

\* An invocation that has not been triggered yet.
Idle ==
    [pc |-> "idle", file |-> NoDoc, input |-> <<>>, tree |-> <<>>, tasks |-> <<>>,
     i |-> 0, folder |-> <<>>, notices |-> <<>>, prompt |-> <<>>,
     attached |-> 0, removed |-> 0, result |-> "", pass |-> 0]

\* The trees MarkdownRenderer.render can leave in the container.
NoteTrees == TreesOver(Templates, MaxNodes)

\* The trees of the notes that hold no image, embed or media.
PlainTrees == TreesOver({Node("p", <<>>, {})}, 1)

\* The folders a previous session can have left in the vault.
PreExisting == {Candidate(DocBasename[d], i) : d \in Docs, i \in 0..MaxPre}

Init ==
    /\ exports = [e \in Slots |-> Idle]
    /\ vaultPaths \in SUBSET PreExisting
    /\ written = {}
    /\ body = {}
    /\ activeFile \in Docs \cup {NoDoc}

\* The user opens another note, or closes the last one.  The plugin reads
\* the active file at lines 98 and 234 only, so the switches that follow
\* the last of these reads are left out.
SwitchActive(d) ==
    /\ activeFile # d
    /\ \E e \in Slots : exports[e].pc \in {"idle", "render", "exists", "create"}
    /\ activeFile' = d
    /\ UNCHANGED <<exports, vaultPaths, written, body>>

\* An abort whose cleanup is skipped: the container stays attached.
AbortWithoutCleanup(e, stage) ==
    /\ exports' = [exports EXCEPT ![e].pc = "done", ![e].result = stage,
                                  ![e].notices = @ \o <<NoticeFailed>>]
    /\ body' = body

\* A failure that is reported where it happens and again at the top.
AbortReportedTwice(e, stage) ==
    /\ exports' = [exports EXCEPT ![e].pc = "done", ![e].result = stage,
                                  ![e].notices = @ \o <<NoticeFailed, NoticeFailed>>,
                                  ![e].removed = @ + 1]
    /\ body' = body \ {e}

\* The catch and finally blocks of generatePdf (lines 130-136); stage names
\* the await that threw.
Abort(e, stage) ==
    /\ exports' = [exports EXCEPT ![e].pc = "done", ![e].result = stage,
                                  ![e].notices = @ \o <<NoticeFailed>>,
                                  ![e].removed = @ + 1]
    /\ body' = body \ {e}

\* A generatePdf that creates its container before it looks for the active
\* file.
StartContainerFirst(e) ==
    /\ exports[e].pc = "idle"
    /\ IF e = 1 THEN TRUE ELSE exports[e - 1].pc # "idle"
    /\ IF activeFile = NoDoc
       THEN /\ exports' = [exports EXCEPT ![e].pc = "done", ![e].result = "nofile",
                                          ![e].notices = @ \o <<NoticeNoFile>>,
                                          ![e].attached = @ + 1]
            /\ body' = body \cup {e}
       ELSE /\ exports' = [exports EXCEPT ![e].pc = "render", ![e].file = activeFile,
                                          ![e].notices = @ \o <<NoticeGenerating>>,
                                          ![e].attached = @ + 1]
            /\ body' = body \cup {e}
    /\ UNCHANGED <<vaultPaths, written, activeFile>>

\* generatePdf up to its first await (lines 98-113).
Start(e) ==
    /\ exports[e].pc = "idle"
    /\ IF e = 1 THEN TRUE ELSE exports[e - 1].pc # "idle"
    /\ IF activeFile = NoDoc
       THEN /\ exports' = [exports EXCEPT ![e].pc = "done", ![e].result = "nofile",
                                          ![e].notices = @ \o <<NoticeNoFile>>]
            /\ body' = body
       ELSE /\ exports' = [exports EXCEPT ![e].pc = "render", ![e].file = activeFile,
                                          ![e].notices = @ \o <<NoticeGenerating>>,
                                          ![e].attached = @ + 1]
            /\ body' = body \cup {e}
    /\ UNCHANGED <<vaultPaths, written, activeFile>>

\* A generatePdf that creates the export folder before it renders: a
\* rendering that fails leaves the folder behind.
RenderSettledAfterFolder(e, ok, tree) ==
    /\ exports[e].pc = "render"
    /\ IF ok
       THEN /\ exports' = [exports EXCEPT ![e].pc = "exists", ![e].input = tree,
                                          ![e].tree = tree,
                                          ![e].tasks = [k \in 1..Len(tree) |-> NoTask],
                                          ![e].i = 0]
            /\ body' = body
            /\ vaultPaths' = vaultPaths
       ELSE LET basename == DocBasename[exports[e].file]
                name == Candidate(basename,
                                  Min({n \in 0..9 : Candidate(basename, n) \notin vaultPaths}))
            IN  /\ exports' = [exports EXCEPT ![e].pc = "done", ![e].result = "render-failed",
                                              ![e].notices = @ \o <<NoticeFailed>>,
                                              ![e].removed = @ + 1, ![e].folder = name]
                /\ body' = body \ {e}
                /\ vaultPaths' = vaultPaths \cup {name}
    /\ UNCHANGED <<written, activeFile>>

\* renderMarkdown settles (lines 113, 142-154), and on success
\* createUniqueExportFolder runs to its first await (lines 160-163).
RenderSettled(e, ok, tree) ==
    /\ exports[e].pc = "render"
    /\ IF ok
       THEN /\ exports' = [exports EXCEPT ![e].pc = "exists", ![e].input = tree,
                                          ![e].tree = tree,
                                          ![e].tasks = [k \in 1..Len(tree) |-> NoTask],
                                          ![e].i = 0]
            /\ body' = body
       ELSE Abort(e, "render-failed")
    /\ UNCHANGED <<vaultPaths, written, activeFile>>

\* A probing loop that steps over a name: i += 2.
ExistsSettledSkipping(e, ok) ==
    /\ exports[e].pc = "exists"
    /\ LET x == exports[e]
           found == Candidate(DocBasename[x.file], x.i) \in vaultPaths
       IN  IF ~ok THEN Abort(e, "folder-failed")
           ELSE /\ exports' = [exports EXCEPT ![e].pc = IF found THEN "exists" ELSE "create",
                                              ![e].i = IF found THEN @ + 2 ELSE @]
                /\ body' = body
    /\ UNCHANGED <<vaultPaths, written, activeFile>>

\* adapter.exists settles (lines 163 and 170-173).
ExistsSettled(e, ok) ==
    /\ exports[e].pc = "exists"
    /\ LET x == exports[e]
           found == Candidate(DocBasename[x.file], x.i) \in vaultPaths
       IN  IF ~ok THEN Abort(e, "folder-failed")
           ELSE /\ exports' = [exports EXCEPT ![e].pc = IF found THEN "exists" ELSE "create",
                                              ![e].i = IF found THEN @ + 1 ELSE @]
                /\ body' = body
    /\ UNCHANGED <<vaultPaths, written, activeFile>>

\* A createFolder that resolves when the folder is there already.
CreateFolderSettledOverExisting(e, ok, dests) ==
    /\ exports[e].pc = "create"
    /\ LET x == exports[e]
           name == Candidate(DocBasename[x.file], x.i)
           pipe == ProcessImagesStart(x.tree, dests, activeFile)
       IN  IF ~ok
           THEN Abort(e, "folder-failed") /\ vaultPaths' = vaultPaths
           ELSE /\ vaultPaths' = vaultPaths \cup {name}
                /\ exports' = [exports EXCEPT ![e].pc = "images", ![e].folder = name,
                                              ![e].tree = pipe.tree, ![e].tasks = pipe.tasks]
                /\ body' = body
    /\ UNCHANGED <<written, activeFile>>

\* vault.createFolder settles (lines 164-165 and 174-175); on success
\* generatePdf goes on into processImages (line 119) up to Promise.all.
CreateFolderSettled(e, ok, dests) ==
    /\ exports[e].pc = "create"
    /\ LET x == exports[e]
           name == Candidate(DocBasename[x.file], x.i)
           pipe == ProcessImagesStart(x.tree, dests, activeFile)
       IN  IF ~ok \/ name \in vaultPaths
           THEN Abort(e, "folder-failed") /\ vaultPaths' = vaultPaths
           ELSE /\ vaultPaths' = vaultPaths \cup {name}
                /\ exports' = [exports EXCEPT ![e].pc = "images", ![e].folder = name,
                                              ![e].tree = pipe.tree, ![e].tasks = pipe.tasks]
                /\ body' = body
    /\ UNCHANGED <<written, activeFile>>

Pipe(e) == [tree |-> exports[e].tree, tasks |-> exports[e].tasks]

SetPipe(e, pipe) ==
    /\ exports' = [exports EXCEPT ![e].tree = pipe.tree, ![e].tasks = pipe.tasks]
    /\ UNCHANGED <<vaultPaths, written, body, activeFile>>

ReadDone(e, img, ok) ==
    /\ img \in 1..Len(exports[e].tasks)
    /\ exports[e].tasks[img].st = "read"
    /\ SetPipe(e, ReadSettled(Pipe(e), img, ok))

FetchDone(e, img, outcome) ==
    /\ img \in 1..Len(exports[e].tasks)
    /\ exports[e].tasks[img].st = "fetch"
    /\ SetPipe(e, FetchSettled(Pipe(e), img, outcome))

EncodeDone(e, img, ok) ==
    /\ img \in 1..Len(exports[e].tasks)
    /\ exports[e].tasks[img].st = "encode"
    /\ SetPipe(e, EncodeSettled(Pipe(e), img, ok))

\* A join that does not wait: generatePdf goes on while tasks are pending.
ImagesSettledEarly(e) ==
    /\ exports[e].pc = "images"
    /\ exports' = [exports EXCEPT ![e].pc = "write", ![e].tree = sanitizeElements(@)]
    /\ body' = body
    /\ UNCHANGED <<vaultPaths, written, activeFile>>

\* Promise.all settles (line 207); generatePdf sanitizes, builds the page
\* and saveAndPrompt runs to its await of createBinary (lines 122-128,
\* 356-364).
ImagesSettled(e) ==
    /\ exports[e].pc = "images"
    /\ Settled(exports[e].tasks) \/ Rejected(exports[e].tasks)
    /\ IF Rejected(exports[e].tasks) THEN Abort(e, "images-failed")
       ELSE /\ exports' = [exports EXCEPT ![e].pc = "write",
                                          ![e].tree = sanitizeElements(@)]
            /\ body' = body
    /\ UNCHANGED <<vaultPaths, written, activeFile>>

\* A saveAndPrompt that notifies and prompts before the write has settled.
WriteSettledAfterPrompt(e, ok) ==
    /\ exports[e].pc = "write"
    /\ LET htmlPath == IndexPath(exports[e].folder)
           failed == ~ok \/ htmlPath \in vaultPaths
       IN  /\ vaultPaths' = IF failed THEN vaultPaths ELSE vaultPaths \cup {htmlPath}
           /\ written' = IF failed THEN written
                         ELSE written \cup {[path |-> htmlPath, by |-> e]}
           /\ exports' = [exports EXCEPT
                             ![e].pc = "done",
                             ![e].result = IF failed THEN "write-failed" ELSE "exported",
                             ![e].notices = @ \o <<NoticeExported(exports[e].folder)>>
                                              \o (IF failed THEN <<NoticeFailed>> ELSE <<>>),
                             ![e].prompt = htmlPath,
                             ![e].removed = @ + 1]
           /\ body' = body \ {e}
    /\ UNCHANGED activeFile

\* vault.createBinary settles (lines 364-367), then the finally block.
WriteSettled(e, ok) ==
    /\ exports[e].pc = "write"
    /\ LET htmlPath == IndexPath(exports[e].folder)
       IN  IF ~ok \/ htmlPath \in vaultPaths
           THEN Abort(e, "write-failed") /\ UNCHANGED <<vaultPaths, written>>
           ELSE /\ vaultPaths' = vaultPaths \cup {htmlPath}
                /\ written' = written \cup {[path |-> htmlPath, by |-> e]}
                /\ exports' = [exports EXCEPT
                                  ![e].pc = "done", ![e].result = "exported",
                                  ![e].notices = @ \o <<NoticeExported(exports[e].folder)>>,
                                  ![e].prompt = htmlPath,
                                  ![e].removed = @ + 1]
                /\ body' = body \ {e}
    /\ UNCHANGED activeFile

\* The image tasks of invocation e.
TaskStep(e) ==
    \/ \E img \in 1..Len(exports[e].tasks), ok \in BOOLEAN : ReadDone(e, img, ok)
    \/ \E img \in 1..Len(exports[e].tasks), outcome \in FetchOutcomes : FetchDone(e, img, outcome)
    \/ \E img \in 1..Len(exports[e].tasks), ok \in BOOLEAN : EncodeDone(e, img, ok)

\* ------------------------------------------------------- specifications
\* One export of a note, of any rendering.
InitNote ==
    /\ exports = [e \in Slots |-> Idle]
    /\ vaultPaths = {}
    /\ written = {}
    /\ body = {}
    /\ activeFile \in {1, NoDoc}

NextNote ==
    \/ Start(1)
    \/ exports[1].pc = "render" /\ \E ok \in BOOLEAN, tree \in NoteTrees : RenderSettled(1, ok, tree)
    \/ \E ok \in BOOLEAN : ExistsSettled(1, ok)
    \/ exports[1].pc = "create"
           /\ \E ok \in BOOLEAN, dests \in DestChoices(NormalizeEmbeds(exports[1].tree)) :
                  CreateFolderSettled(1, ok, dests)
    \/ TaskStep(1)
    \/ ImagesSettled(1)
    \/ \E ok \in BOOLEAN : WriteSettled(1, ok)

SpecNote == InitNote /\ [][NextNote]_vars

\* Exports that follow one another or overlap, of notes without images: the
\* active file is read at line 98 only, so it changes while an export is
\* still to start.
NextOverlap ==
    \/ (\E e \in Slots : exports[e].pc = "idle") /\ \E d \in Docs \cup {NoDoc} : SwitchActive(d)
    \/ \E e \in Slots : Start(e)
    \/ \E e \in Slots, ok \in BOOLEAN, tree \in PlainTrees : RenderSettled(e, ok, tree)
    \/ \E e \in Slots, ok \in BOOLEAN : ExistsSettled(e, ok)
    \/ \E e \in Slots, ok \in BOOLEAN :
           CreateFolderSettled(e, ok, [k \in 1..Len(exports[e].tree) |-> NoFile])
    \/ \E e \in Slots : ImagesSettled(e)
    \/ \E e \in Slots, ok \in BOOLEAN : WriteSettled(e, ok)

SpecOverlap == Init /\ [][NextOverlap]_vars

\* The pipeline alone, run again on its own output: processImages up to
\* Promise.all, on the tree as it is.
PipelineStart(e, dests) ==
    /\ exports[e].pc = "pipeline"
    /\ exports[e].pass < MaxPasses
    /\ LET pipe == ProcessImagesStart(exports[e].tree, dests, activeFile)
       IN  exports' = [exports EXCEPT ![e].pc = "images", ![e].input = exports[e].tree,
                                      ![e].tree = pipe.tree, ![e].tasks = pipe.tasks,
                                      ![e].pass = @ + 1]
    /\ UNCHANGED <<vaultPaths, written, body, activeFile>>

\* Promise.all settles and sanitizeElements runs (lines 207 and 122).
PipelineEnd(e) ==
    /\ exports[e].pc = "images"
    /\ Settled(exports[e].tasks)
    /\ exports' = [exports EXCEPT ![e].pc = "pipeline", ![e].tree = sanitizeElements(@)]
    /\ UNCHANGED <<vaultPaths, written, body, activeFile>>

\* The renderings the pipeline is run again on: an image for each way of
\* getting bytes, an inline image, an embed and media nodes.
RerunTrees ==
    TreesOver({ Node("img", RefHttpLocal, {"srcset", "data-src", "sizes"}),
                Node("img", RefHttp, {}),
                Node("img", RefInline, {}),
                Node("span", RefEmbedUpper, {}),
                Node("video", <<>>, {}),
                Node("audio", <<>>, {}) }, MaxNodes)

InitRerun ==
    /\ \E tree \in RerunTrees :
           exports = [e \in Slots |->
                        IF e = 1
                        THEN [Idle EXCEPT !.pc = "pipeline", !.file = 1, !.input = tree,
                                          !.tree = tree,
                                          !.tasks = [k \in 1..Len(tree) |-> NoTask]]
                        ELSE Idle]
    /\ vaultPaths = {}
    /\ written = {}
    /\ body = {}
    /\ activeFile = 1

\* The pipeline on a rendering of one node, of every kind of reference.
ProbeTemplates ==
    Templates \cup
    { Node("img", RefHttpDir, {}),
      Node("img", RefLowerName, {}),
      Node("img", RefEscapedQuery, {}),
      Node("img", RefEscapedSlash, {}),
      Node("img", RefQueryBeforeSlash, {}),
      Node("span", RefEmbedPath, {}),
      Node("span", RefEmbedNoDot, {}),
      Node("span", RefLowerName, {}) }
    \cup {Node("img", VaultFiles[f].name, {}) : f \in 4..Len(VaultFiles)}

ProbeTrees == TreesOver(ProbeTemplates, 1)

InitProbe ==
    /\ \E tree \in ProbeTrees \ {<<>>} :
           exports = [e \in Slots |->
                        IF e = 1
                        THEN [Idle EXCEPT !.pc = "pipeline", !.file = 1, !.input = tree,
                                          !.tree = tree,
                                          !.tasks = [k \in 1..Len(tree) |-> NoTask]]
                        ELSE Idle]
    /\ vaultPaths = {}
    /\ written = {}
    /\ body = {}
    /\ activeFile = 1

NextRerun ==
    \/ (exports[1].pc = "pipeline" /\ exports[1].pass < MaxPasses)
           /\ \E dests \in DestChoices(NormalizeEmbeds(exports[1].tree)) : PipelineStart(1, dests)
    \/ TaskStep(1)
    \/ PipelineEnd(1)

SpecRerun == InitRerun /\ [][NextRerun]_vars

SpecProbe == InitProbe /\ [][NextRerun]_vars

\* One export of a note with images, while the user moves between notes.
SwitchTrees ==
    TreesOver({ Node("img", RefHttpLocal, {"srcset", "data-src", "sizes"}),
                Node("img", RefHttp, {}),
                Node("span", RefEmbedUpper, {}) }, MaxNodes)

InitSwitch ==
    /\ exports = [e \in Slots |-> Idle]
    /\ vaultPaths = {}
    /\ written = {}
    /\ body = {}
    /\ activeFile \in Docs \cup {NoDoc}

NextSwitch ==
    \/ exports[1].pc \in {"idle", "render", "exists", "create"}
           /\ \E d \in Docs \cup {NoDoc} : SwitchActive(d)
    \/ Start(1)
    \/ exports[1].pc = "render" /\ \E ok \in BOOLEAN, tree \in SwitchTrees : RenderSettled(1, ok, tree)
    \/ \E ok \in BOOLEAN : ExistsSettled(1, ok)
    \/ exports[1].pc = "create"
           /\ \E ok \in BOOLEAN, dests \in DestChoices(NormalizeEmbeds(exports[1].tree)) :
                  CreateFolderSettled(1, ok, dests)
    \/ TaskStep(1)
    \/ ImagesSettled(1)
    \/ \E ok \in BOOLEAN : WriteSettled(1, ok)

SpecSwitch == InitSwitch /\ [][NextSwitch]_vars

\* One export of a note with images into a vault that holds the folders of
\* the earlier exports of that note, every host primitive settling in the end: a promise
\* the export awaits (lines 113, 116, 119, 132; 163-174; 245, 251, 258) is
\* settled by the host after finitely many steps.
InitSettle ==
    /\ exports = [e \in Slots |-> Idle]
    /\ \E n \in 0..(MaxPre + 1) : vaultPaths = {Candidate(DocBasename[1], i) : i \in 0..(n - 1)}
    /\ written = {}
    /\ body = {}
    /\ activeFile \in {1, NoDoc}

\* The renderings of that note: images read from the vault and fetched.
SettleTrees ==
    TreesOver({ Node("img", RefHttpLocal, {"srcset", "data-src", "sizes"}),
                Node("img", RefHttp, {}) }, MaxNodes)

\* A primitive that export e awaits settles.
Settle(e) ==
    \/ exports[e].pc = "render" /\ \E ok \in BOOLEAN, tree \in SettleTrees : RenderSettled(e, ok, tree)
    \/ \E ok \in BOOLEAN : ExistsSettled(e, ok)
    \/ CreateFolderSettled(e, FALSE, <<>>)
    \/ exports[e].pc = "create"
           /\ \E dests \in DestChoices(NormalizeEmbeds(exports[e].tree)) :
                  CreateFolderSettled(e, TRUE, dests)
    \/ TaskStep(e)
    \/ ImagesSettled(e)
    \/ \E ok \in BOOLEAN : WriteSettled(e, ok)

NextSettle ==
    \/ Start(1)
    \/ Settle(1)

SpecSettle == InitSettle /\ [][NextSettle]_vars /\ WF_vars(Settle(1))

\* ---------------------------------------------------------------- claims
Inline(node) == StartsWith(node.src, DataPrefix)

\* The failure marker of lines 268-269 on a node.
Marked(node) == node.alt = MissingAlt(node.src) /\ node.border = RedBorder

\* An embed marker that names an image.
ImageMarker(node) ==
    /\ node.kind = "span"
    /\ node.src # <<>>
    /\ ToLowerCase(AfterLast(node.src, ".")) \in imageExtensions

\* The pipeline (processImages, then sanitizeElements) of invocation e has
\* completed and nothing has run since.
PipelineCompleted(e) == exports[e].pc = "write"

LiveSlots(tree) == {i \in 1..Len(tree) : Live(tree, i)}

Has(log, what) == \E k \in 1..Len(log) : log[k] = what

\* C1 (as claimed): when the pipeline has completed, every image of the
\* output tree that bears a reference has an inline data URI or the failure
\* marker, and no embed marker that names an image is left in the tree.
C1_Completeness ==
    \A e \in Slots :
        PipelineCompleted(e) =>
            \A i \in LiveSlots(exports[e].tree) :
                LET node == exports[e].tree[i]
                IN  /\ (node.kind = "img" /\ node.src # <<>>) => (Inline(node) \/ Marked(node))
                    /\ ~ImageMarker(node)

\* A task that ended in one of the failure classes of the claim.
FetchFailed(task) == Has(task.log, "fetch-throw")
DecodeFailed(task) == Has(task.log, "decode-throw")
MissedNotRemote(task) ==
    /\ Has(task.log, "lookup")
    /\ task.file = NoFile
    /\ ~Has(task.log, "fetch")

\* C2 (as claimed): a node whose fetch failed, whose reference could not be
\* percent-decoded, or whose local resolution missed while it was not
\* eligible for a fetch, ends the pipeline with the failure marker naming
\* its original reference.
C2_FailuresRecorded ==
    \A e \in Slots :
        PipelineCompleted(e) =>
            \A i \in 1..Len(exports[e].tree) :
                LET task == exports[e].tasks[i]
                    node == exports[e].tree[i]
                IN  (FetchFailed(task) \/ DecodeFailed(task) \/ MissedNotRemote(task)) =>
                        /\ node.alt = MissingAlt(task.orig)
                        /\ node.border = RedBorder

\* The bytes of a task arrived and were encoded, whatever its siblings did.
Resolved(task) ==
    /\ Has(task.log, "read") \/ Has(task.log, "fetch")
    /\ ~Has(task.log, "read-throw")
    /\ ~Has(task.log, "fetch-throw")
    /\ ~Has(task.log, "encode-throw")
    /\ task.st = "done"

Failed(task) ==
    task.st = "done" /\ (Has(task.log, "caught") \/ Has(task.log, "mark"))

\* What a node is when its task ran with no sibling beside it: a function of
\* the node the task started on and of what that task met.
Alone(node0, task) ==
    IF Resolved(task)
    THEN [node0 EXCEPT !.src = DataPrefix \o <<task.mime, ";base64,", task.buf>>,
                       !.attrs = @ \ {"srcset", "sizes", "data-src", "data-is-embed"}]
    ELSE IF task.st = "done" /\ task.file = NoFile /\ Has(task.log, "lookup")
            /\ ~Has(task.log, "fetch")
    THEN [node0 EXCEPT !.alt = <<"[Image Missing: ">> \o node0.src \o <<"]">>,
                       !.border = "1px solid red"]
    ELSE node0

SameButParent(a, b) == [a EXCEPT !.parent = 0] = [b EXCEPT !.parent = 0]

\* C3: whatever happens to its siblings, each image is at every moment what
\* its own task alone makes of it; so an image whose bytes arrive ends with
\* its inline data URI although a sibling failed.
C3_Isolation ==
    \A e \in Slots :
        exports[e].pc \in {"images", "write", "done"} /\ exports[e].folder # <<>> =>
            \A i \in 1..Len(exports[e].tree) :
                LET task == exports[e].tasks[i]
                    node == exports[e].tree[i]
                    node0 == NormalizeEmbeds(exports[e].input)[i]
                IN  node0.kind = "img" =>
                        /\ SameButParent(node, Alone(node0, task))
                        /\ Resolved(task) => Inline(node)

\* An image was inlined while a sibling of the same document failed.
C3_Witness ==
    \E e \in Slots :
        /\ PipelineCompleted(e)
        /\ \E i, j \in 1..Len(exports[e].tree) :
               /\ i # j
               /\ Failed(exports[e].tasks[i])
               /\ Resolved(exports[e].tasks[j])
               /\ Inline(exports[e].tree[j])

FatalStages == {"render-failed", "folder-failed", "write-failed"}

Count(seq, x) == Cardinality({k \in 1..Len(seq) : seq[k] = x})

WrittenBy(e) == {w \in written : w.by = e}

\* C4: no image task rejects, and an export whose rendering, folder
\* creation and write succeed ends with index.html written, the success
\* notice and the prompt, and without the failure notice, whatever its
\* images met.
C4_ImageFailuresNeverAbort ==
    \A e \in Slots :
        /\ ~Rejected(exports[e].tasks)
        /\ (exports[e].pc = "done" /\ exports[e].result \notin FatalStages \cup {"nofile"}) =>
               /\ exports[e].result = "exported"
               /\ WrittenBy(e) = {[path |-> exports[e].folder \o <<"/", "index.html">>, by |-> e]}
               /\ Count(exports[e].notices, <<"Exported to: ">> \o exports[e].folder) = 1
               /\ Count(exports[e].notices, NoticeFailed) = 0
               /\ exports[e].prompt = exports[e].folder \o <<"/", "index.html">>

\* An export completed although one of its images failed with an exception.
C4_Witness ==
    \E e \in Slots :
        /\ exports[e].pc = "done"
        /\ exports[e].result = "exported"
        /\ \E i \in 1..Len(exports[e].tasks) : Has(exports[e].tasks[i].log, "caught")
        /\ \E i \in 1..Len(exports[e].tasks) : Has(exports[e].tasks[i].log, "mark")

\* C5: an export that fails at rendering, at the folder or at the write
\* shows the failure notice exactly once, shows neither the success notice
\* nor the prompt, and writes no file; after a failure of rendering or of
\* the folder, no folder is recorded and no image task was started.
C5_FatalAbortsOnce ==
    \A e \in Slots :
        (exports[e].pc = "done" /\ exports[e].result \in FatalStages) =>
            /\ Count(exports[e].notices, NoticeFailed) = 1
            /\ \A k \in 1..Len(exports[e].notices) :
                   exports[e].notices[k] \in {NoticeGenerating, NoticeFailed}
            /\ exports[e].prompt = <<>>
            /\ WrittenBy(e) = {}
            /\ exports[e].result \in {"render-failed", "folder-failed"} =>
                   /\ exports[e].folder = <<>>
                   /\ \A i \in 1..Len(exports[e].tasks) : exports[e].tasks[i].st = "none"

\* Each fatal stage was met: a write failed after the images were processed.
C5_Witness ==
    \E e \in Slots :
        /\ exports[e].pc = "done"
        /\ exports[e].result = "write-failed"
        /\ \E i \in 1..Len(exports[e].tasks) : exports[e].tasks[i].st = "done"

\* C6: an invocation creates at most one container; while it runs, its
\* container is attached and has not been removed; once it has finished, on
\* whatever path, its container has been removed exactly once; when every
\* started export has finished, no container is attached.
C6_ContainerReleased ==
    /\ \A e \in Slots :
           /\ exports[e].attached <= 1
           /\ exports[e].pc \notin {"idle", "done"} =>
                  e \in body /\ exports[e].attached = 1 /\ exports[e].removed = 0
           /\ exports[e].pc = "done" =>
                  e \notin body /\ exports[e].removed = exports[e].attached
           /\ exports[e].pc = "idle" => e \notin body /\ exports[e].attached = 0
    /\ (\A e \in Slots : exports[e].pc \in {"idle", "done"}) => body = {}

\* Two exports have finished, one completed and one aborted after its
\* folder was created, and both had a container.
C6_Witness ==
    \E e1, e2 \in Slots :
        /\ exports[e1].pc = "done" /\ exports[e1].result = "exported"
        /\ exports[e2].pc = "done" /\ exports[e2].result = "write-failed"
        /\ exports[e1].removed = 1 /\ exports[e2].removed = 1
        /\ body = {}

\* The folder names of the claim for the documents of the model, whose
\* basenames N-1 and N_1 both become N_1: N_1-Export, N_1-Export-1, ...
ClaimedFolder(n) ==
    <<"N", "_", "1", "-", "E", "x", "p", "o", "r", "t">>
        \o (IF n = 0 THEN <<>> ELSE <<"-", <<"1", "2", "3", "4", "5", "6", "7", "8", "9">>[n]>>)

SmallestFree(paths) == Min({n \in 0..9 : ClaimedFolder(n) \notin paths})

\* C7: the folder an export obtains did not exist before it was created and
\* is X-Export if that was free, else X-Export-n for the smallest n >= 1
\* that was free; nothing that exists is removed; the folders of different
\* exports differ.
C7_FolderUniqueness ==
    /\ [](\A e1, e2 \in Slots :
              (e1 # e2 /\ exports[e1].folder # <<>> /\ exports[e2].folder # <<>>) =>
                  exports[e1].folder # exports[e2].folder)
    /\ [][ /\ vaultPaths \subseteq vaultPaths'
           /\ \A e \in Slots :
                  (exports[e].folder = <<>> /\ exports'[e].folder # <<>>) =>
                      /\ exports'[e].folder \notin vaultPaths
                      /\ exports'[e].folder \in vaultPaths'
                      /\ exports'[e].folder = ClaimedFolder(SmallestFree(vaultPaths)) ]_vars

\* Two exports of the same document, one after the other, in a vault that
\* held X-Export already: they obtained X-Export-1, then X-Export-2.
C7_Witness ==
    /\ exports[1].pc = "done" /\ exports[1].file = 1 /\ exports[1].folder = ClaimedFolder(1)
    /\ exports[2].pc = "done" /\ exports[2].file = 1 /\ exports[2].folder = ClaimedFolder(2)

\* C10: an export writes at most one file; whenever its success notice or
\* its prompt is there, index.html has been written in the folder this
\* export created and the prompt carries that path; a completed export has
\* written exactly that file.
C10_SingleArtifact ==
    \A e \in Slots :
        LET x == exports[e]
            path == x.folder \o <<"/", "index.html">>
            announced == x.prompt # <<>> \/ Count(x.notices, <<"Exported to: ">> \o x.folder) > 0
        IN  /\ Cardinality(WrittenBy(e)) <= 1
            /\ WrittenBy(e) # {} => WrittenBy(e) = {[path |-> path, by |-> e]}
            /\ announced =>
                   /\ x.folder # <<>>
                   /\ x.folder \in vaultPaths
                   /\ [path |-> path, by |-> e] \in written
                   /\ x.prompt = path
                   /\ Count(x.notices, <<"Exported to: ">> \o x.folder) = 1
            /\ x.result = "exported" => announced
            /\ \A o \in Slots : (o # e /\ x.folder # <<>>) => exports[o].folder # x.folder

\* Two exports completed, each with its own index.html.
C10_Witness ==
    /\ \A e \in Slots : exports[e].result = "exported"
    /\ Cardinality(written) = MaxExports

\* The tree when sanitizeElements runs has the kinds and parents of the
\* rendered tree with its embeds normalized: the tasks change neither.
BeforeSanitize(e) == NormalizeEmbeds(exports[e].input)

MediaSlots(tree) == {i \in 1..Len(tree) : tree[i].kind \in {"video", "audio", "iframe"}}

NestedInMedia(tree, i) ==
    \E a \in Ancestors(tree, tree[i].parent) : tree[a].kind \in {"video", "audio", "iframe"}

IsPlaceholder(node) ==
    node.kind = "div" /\ node.text = "[Media/Embed not supported in PDF Export]"

LivePlaceholders(tree) == {i \in LiveSlots(tree) : IsPlaceholder(tree[i])}

\* C9 (as claimed): after sanitizeElements no media node is left in the
\* output, no lookup or fetch was made for one, and the output holds as
\* many placeholders as the tree it ran on held media nodes, those nested
\* inside other media nodes included.
C9_PlaceholderPerMediaNode ==
    \A e \in Slots :
        PipelineCompleted(e) =>
            /\ MediaSlots(exports[e].tree) \cap LiveSlots(exports[e].tree) = {}
            /\ \A i \in MediaSlots(exports[e].input) : exports[e].tasks[i].st = "none"
            /\ Cardinality(LivePlaceholders(exports[e].tree))
                   = Cardinality(MediaSlots(BeforeSanitize(e)) \cap LiveSlots(BeforeSanitize(e)))

\* C9 (amended): after sanitizeElements no media node is left in the
\* output and no lookup or fetch was made for one; every media node that
\* was attached when it ran is replaced by a placeholder, at its own
\* position when it was not nested inside another media node; the
\* placeholders of the output are those of the media nodes that were
\* attached and not nested inside another media node.
C9_SanitizationTotality ==
    \A e \in Slots :
        PipelineCompleted(e) =>
            LET before == BeforeSanitize(e)
                after == exports[e].tree
                outer == {i \in MediaSlots(before) :
                              Live(before, i) /\ ~NestedInMedia(before, i)}
            IN  /\ MediaSlots(after) \cap LiveSlots(after) = {}
                /\ \A i \in MediaSlots(exports[e].input) : exports[e].tasks[i].st = "none"
                /\ \A i \in MediaSlots(before) : Live(before, i) => IsPlaceholder(after[i])
                /\ \A i \in outer : Live(after, i) /\ after[i].parent = before[i].parent
                /\ LivePlaceholders(after) = outer

\* A media node nested inside another one was sanitized: the output holds
\* the placeholder of the outer one only.
C9_Witness ==
    \E e \in Slots :
        /\ PipelineCompleted(e)
        /\ \E i \in MediaSlots(exports[e].input) :
               /\ NestedInMedia(exports[e].input, i)
               /\ IsPlaceholder(exports[e].tree[i])
               /\ ~Live(exports[e].tree, i)
        /\ Cardinality(LivePlaceholders(exports[e].tree)) = 1

AllImagesInline(tree) ==
    \A i \in LiveSlots(tree) : tree[i].kind = "img" => Inline(tree[i])

\* C8: in every pass an image whose reference is inline when the pass
\* starts is skipped and left as it is; a pass that runs on the output of
\* an earlier pass in which every image is inline changes nothing in the
\* tree and makes no lookup, read or fetch.
C8_Idempotence ==
    \A e \in Slots :
        exports[e].pass >= 1 =>
            /\ \A i \in LiveSlots(NormalizeEmbeds(exports[e].input)) :
                   LET node0 == NormalizeEmbeds(exports[e].input)[i]
                   IN  (node0.kind = "img" /\ Inline(node0)) =>
                           /\ exports[e].tasks[i].log = <<"skip">>
                           /\ SameButParent(exports[e].tree[i], node0)
            /\ (exports[e].pass >= 2 /\ AllImagesInline(exports[e].input)) =>
                   /\ exports[e].tree = exports[e].input
                   /\ \A i \in 1..Len(exports[e].tasks) :
                          exports[e].tasks[i].log \in {<<>>, <<"skip">>}

\* A second pass has ended on a tree whose images the first pass inlined.
C8_Witness ==
    \E e \in Slots :
        /\ exports[e].pass = 2
        /\ exports[e].pc = "pipeline"
        /\ AllImagesInline(exports[e].input)
        /\ \E i \in LiveSlots(exports[e].input) :
               /\ exports[e].input[i].kind = "img"
               /\ exports[e].input[i].src = DataPrefix \o <<"image/png", ";base64,", "bytes1">>
        /\ exports[e].tree = exports[e].input

\* Sanitization has run, so the tree is what innerHTML is read from.
Joined(e) == exports[e].pc \in {"write", "done"} /\ exports[e].result # "nofile"

Unsettled(task) == task.st \in {"read", "fetch", "encode"}

\* C11: sanitization, serialization and the write begin only when every
\* image task of the export has settled, in every interleaving of the read
\* and fetch completions; from then on no node of the tree changes.
C11_WaitForAll ==
    /\ [](\A e \in Slots :
             Joined(e) => \A i \in 1..Len(exports[e].tasks) : ~Unsettled(exports[e].tasks[i]))
    /\ [][\A e \in Slots :
             /\ (exports[e].pc = "images" /\ exports'[e].pc # "images") =>
                    \A i \in 1..Len(exports[e].tasks) : ~Unsettled(exports[e].tasks[i])
             /\ (exports[e].pc = "write" /\ exports[e].tasks # <<>>) =>
                    (exports'[e].tree = exports[e].tree /\ exports'[e].tasks = exports[e].tasks)]_vars

\* A read that succeeded and a fetch that failed, of the same export, both
\* settled before the tree was sanitized.
C11_Witness ==
    \E e \in Slots :
        /\ exports[e].pc = "write"
        /\ \E i, j \in 1..Len(exports[e].tasks) :
               /\ i < j
               /\ Has(exports[e].tasks[i].log, "read") /\ Has(exports[e].tasks[i].log, "set")
               /\ Has(exports[e].tasks[j].log, "fetch-throw")

SameStructure(a, b) ==
    /\ Len(a) = Len(b)
    /\ \A i \in 1..Len(a) : a[i].kind = b[i].kind /\ a[i].parent = b[i].parent

\* C12: while the image tasks of an export run, the tree has the structure
\* embed normalization gave it (no marker that names an image is left, no
\* media node is replaced yet), the nodes a task was started for are
\* exactly the images attached to the normalized tree, the synthesized ones
\* included, and no step of a task changes the structure; sanitization is
\* the step that ends the stage.
C12_StageOrdering ==
    /\ [](\A e \in Slots :
             exports[e].pc = "images" =>
                 LET normalized == NormalizeEmbeds(exports[e].input)
                 IN  /\ SameStructure(exports[e].tree, normalized)
                     /\ \A i \in 1..Len(exports[e].tree) :
                            /\ ~ImageMarker(exports[e].tree[i])
                            /\ ~IsPlaceholder(exports[e].tree[i])
                            /\ exports[e].tasks[i].st # "none"
                                  <=> (normalized[i].kind = "img" /\ Live(normalized, i)))
    /\ [][\A e \in Slots :
             exports[e].pc = "images" =>
                 \/ exports'[e].pc = "images" /\ SameStructure(exports'[e].tree, exports[e].tree)
                 \/ exports'[e].pc = "write" /\ exports'[e].tree = sanitizeElements(exports[e].tree)]_vars

\* A task is in flight for an image that normalization synthesized from an
\* embed marker, beside a media node that is still in the tree.
C12_Witness ==
    \E e \in Slots :
        /\ exports[e].pc = "images"
        /\ \E i, j \in 1..Len(exports[e].tree) :
               /\ exports[e].input[i].kind = "span"
               /\ exports[e].tree[i].kind = "img"
               /\ exports[e].tasks[i].st = "encode"
               /\ exports[e].tree[j].kind \in MediaKinds

\* C13 (as claimed): every path-aware lookup of an export is made relative
\* to the document the export was started on, whatever the workspace's
\* active file has become since.
C13_LookupRelativeToExported ==
    \A e \in Slots :
        \A i \in 1..Len(exports[e].tasks) :
            Has(exports[e].tasks[i].log, "lookup") => exports[e].tasks[i].rel = exports[e].file

\* A fetch, or a read, was issued for the task's node.
FetchIssued(task) == task.st = "fetch" \/ Has(task.log, "fetch")
ReadIssued(task) == task.st = "read" \/ Has(task.log, "read")

\* The node of slot i as the tasks of export e found it.
StartedOn(e, i) == NormalizeEmbeds(exports[e].input)[i]

IsEmbed(node) == "data-is-embed" \in node.attrs

\* C14: a fetch is issued for a node exactly when its lookup in the vault
\* (by path, then by name) found no file, the node is no embed and its
\* reference begins with http; it is issued once; no node gets both a read
\* and a fetch.  An embed is never fetched, and an http reference whose
\* last segment names a vault file is read from the vault.
C14_RemoteEligibility ==
    \A e \in Slots :
        \A i \in 1..Len(exports[e].tasks) :
            LET task == exports[e].tasks[i]
            IN  task.st # "none" =>
                    /\ FetchIssued(task) <=>
                           /\ Has(task.log, "lookup")
                           /\ task.file = NoFile
                           /\ ~IsEmbed(StartedOn(e, i))
                           /\ StartsWith(task.orig, HttpPrefix)
                    /\ Count(task.log, "fetch") <= 1
                    /\ ~(FetchIssued(task) /\ ReadIssued(task))
                    /\ IsEmbed(StartedOn(e, i)) => ~FetchIssued(task)
                    /\ task.orig = RefHttpLocal => (~FetchIssued(task) /\ task.file # NoFile)

\* A fetch gave the bytes of one image while an embed with an http
\* reference was marked missing without a fetch.
C14_Witness ==
    \E e \in Slots :
        /\ exports[e].pc = "write"
        /\ \E i, j \in 1..Len(exports[e].tasks) :
               /\ IsEmbed(StartedOn(e, i))
               /\ exports[e].tasks[i].orig = RefEmbedHttp
               /\ Has(exports[e].tasks[i].log, "mark")
               /\ exports[e].tasks[j].log = <<"lookup", "scan", "fetch", "set">>

\* The first file of the store's order whose name is the key, letter for
\* letter; NoFile when there is none.
FirstNamed(key) ==
    IF \A f \in FileIds : VaultFiles[f].name # key THEN NoFile
    ELSE CHOOSE f \in FileIds :
             /\ VaultFiles[f].name = key
             /\ \A g \in 1..(f - 1) : VaultFiles[g].name # key

\* C15: the file of a node is the answer of the lookup by path whenever
\* that answer is a file; the store is scanned by name only when the
\* lookup by path answers nothing and the key is not empty, and then gives
\* the first file of the store's order whose name equals the key exactly;
\* with an empty key and no answer, no scan is made and no file is found.
C15_LocalResolverOrder ==
    \A e \in Slots :
        \A i \in 1..Len(exports[e].tasks) :
            LET task == exports[e].tasks[i]
            IN  Has(task.log, "lookup") =>
                    /\ task.dest # NoFile => (task.file = task.dest /\ ~Has(task.log, "scan"))
                    /\ Has(task.log, "scan") <=> (task.dest = NoFile /\ task.key # <<>>)
                    /\ Has(task.log, "scan") => task.file = FirstNamed(task.key)
                    /\ (task.dest = NoFile /\ task.key = <<>>) => task.file = NoFile

\* The lookup by path answered nothing for a.png, and the scan took the
\* first of the two files of that name.
C15_Witness ==
    \E e \in Slots :
        \E i \in 1..Len(exports[e].tasks) :
            /\ exports[e].tasks[i].key = <<"a", ".", "p", "n", "g">>
            /\ exports[e].tasks[i].dest = NoFile
            /\ Has(exports[e].tasks[i].log, "scan")
            /\ exports[e].tasks[i].file = 1
            /\ exports[e].tasks[i].buf = "bytes1"

\* The marker's reference has a '.', and what follows the last one is,
\* in lower case, a recognized image extension.
HasImageExtension(reference) ==
    /\ IndexesOf(reference, ".") # {}
    /\ ToLowerCase(SubSeq(reference, Max(IndexesOf(reference, ".")) + 1, Len(reference)))
          \in imageExtensions

\* C16 (as claimed): normalization replaces a marker, in its place, by an
\* image with the marker's reference and the embed hint exactly when the
\* marker has a reference whose part after the last '.' is a recognized
\* image extension; every other marker is left as it is.  Stated of the
\* tree processImages was started on, once it has been started.
C16_EmbedNormalization ==
    \A e \in Slots :
        \A i \in 1..Len(exports[e].input) :
            LET marker == exports[e].input[i]
                node == NormalizeEmbeds(exports[e].input)[i]
            IN  (exports[e].pass >= 1 /\ marker.kind = "span" /\ Live(exports[e].input, i)) =>
                    IF marker.src # <<>> /\ HasImageExtension(marker.src)
                    THEN /\ node.kind = "img"
                         /\ node.src = marker.src
                         /\ IsEmbed(node)
                         /\ node.parent = marker.parent
                    ELSE node = marker

\* The keys of the references of the model, worked out by hand: decoded,
\* then cut at the first '?', then cut after the last '/'.
ExpectedKey(reference) ==
    CASE reference = RefHttpLocal -> <<"a", ".", "p", "n", "g">>
      [] reference = RefHttp -> <<"z", ".", "g", "i", "f">>
      [] reference = RefMissing -> <<"z", ".", "g", "i", "f">>
      [] reference = RefHttpDir -> <<>>
      [] reference = RefLowerName -> <<"b", ".", "j", "p", "g">>
      [] reference = RefEscapedQuery -> <<"a", ".", "p", "n", "g">>
      [] reference = RefEscapedSlash -> <<"a", ".", "p", "n", "g">>
      [] reference = RefQueryBeforeSlash -> <<"a", ".", "p", "n", "g">>
      [] Range(reference) \cap {"%", "?", "/"} = {} -> reference
      [] OTHER -> <<"?">>

HintAttributes == {"data-is-embed", "srcset", "sizes", "data-src"}

\* The node of a task carries the data URI of the task's bytes, no hint
\* attribute and no failure marker.
Rewritten(node, task) ==
    /\ node.src = DataPrefix \o <<task.mime, ";base64,", task.buf>>
    /\ node.attrs \cap HintAttributes = {}
    /\ node.alt = <<>>
    /\ node.border = ""

C19_FailureMarking ==
    \A e \in Slots :
        \A i \in 1..Len(exports[e].tasks) :
            LET task == exports[e].tasks[i]
                node == exports[e].tree[i]
            IN  /\ task.st # "rejected"
                /\ (exports[e].pc = "images" /\ Has(task.log, "lookup") /\ task.file = NoFile
                        /\ (IsEmbed(StartedOn(e, i)) \/ ~StartsWith(task.orig, HttpPrefix))) =>
                       /\ task.st = "done"
                       /\ node.alt = <<"[Image Missing: ">> \o task.orig \o <<"]">>
                       /\ node.border = "1px solid red"
                       /\ node.src = task.orig
                       /\ node.src = StartedOn(e, i).src
                       /\ ~ReadIssued(task) /\ ~FetchIssued(task)

\* An embed with an http reference and an image with a plain reference
\* were both marked missing.
C19_Witness ==
    \E e \in Slots :
        /\ exports[e].pc = "images"
        /\ \E i, j \in 1..Len(exports[e].tasks) :
               /\ IsEmbed(exports[e].tree[i]) /\ exports[e].tree[i].src = RefEmbedHttp
               /\ exports[e].tree[i].alt = MissingAlt(RefEmbedHttp)
               /\ ~IsEmbed(exports[e].tree[j]) /\ exports[e].tree[j].src = RefMissing
               /\ exports[e].tree[j].alt = MissingAlt(RefMissing)
               /\ exports[e].tree[j].border = RedBorder

\* The MIME types of the claim for the extensions of the store's files.
ExpectedMime(extension) ==
    CASE extension = <<"p", "n", "g">> -> "image/png"
      [] extension \in {<<"j", "p", "g">>, <<"J", "P", "G">>, <<"j", "p", "e", "g">>} -> "image/jpeg"
      [] extension = <<"w", "e", "b", "p">> -> "image/webp"
      [] extension = <<"g", "i", "f">> -> "image/gif"
      [] extension \in {<<"s", "v", "g">>, <<"S", "v", "g">>} -> "image/svg+xml"
      [] extension = <<"b", "m", "p">> -> "image/bmp"
      [] extension \in {<<"h", "e", "i", "c">>, <<>>} -> "image/png"
      [] OTHER -> "?"

\* C20: the MIME type of bytes read from the store is given by the file's
\* extension alone, whatever its case, by the table png, jpg, jpeg, webp,
\* gif, svg, bmp, with image/png for every other extension; the MIME type
\* of fetched bytes is the content-type header of the response, or
\* image/png when the response has none.
C20_MimeDerivation ==
    \A e \in Slots :
        \A i \in 1..Len(exports[e].tasks) :
            LET task == exports[e].tasks[i]
            IN  /\ (Has(task.log, "read") /\ task.buf # "") =>
                       task.mime = ExpectedMime(VaultFiles[task.file].extension)
                /\ (Has(task.log, "fetch") /\ task.buf # "") =>
                       task.mime = (IF task.header = "" THEN "image/png" ELSE task.header)
                /\ Has(task.log, "set") =>
                       exports[e].tree[i].src = DataPrefix \o <<task.mime, ";base64,", task.buf>>

\* The bytes of m.Svg were inlined as image/svg+xml.
C20_Witness ==
    \E e \in Slots :
        \E i \in 1..Len(exports[e].tasks) :
            /\ exports[e].tasks[i].file \in FileIds
            /\ VaultFiles[exports[e].tasks[i].file].extension = <<"S", "v", "g">>
            /\ exports[e].tree[i].src = DataPrefix \o <<"image/svg+xml", ";base64,", "bytes4">>

\* The tree that the outcomes recorded in the tasks give when they are
\* applied to the normalized tree one node after the other, in the order
\* of the slots.
RECURSIVE Replay(_, _, _)
Replay(tree, tasks, k) ==
    IF k > Len(tasks) THEN tree
    ELSE LET task == tasks[k]
             next == IF Has(task.log, "set")
                     THEN [tree EXCEPT ![k].src = DataPrefix \o <<task.mime, ";base64,", task.buf>>,
                                       ![k].attrs = @ \ HintAttributes]
                     ELSE IF Has(task.log, "mark")
                     THEN [tree EXCEPT ![k].alt = <<"[Image Missing: ">> \o task.orig \o <<"]">>,
                                       ![k].border = "1px solid red"]
                     ELSE tree
         IN  Replay(next, tasks, k + 1)

\* C21: a step of an image task changes the node and the record of that
\* task only, and the tree is at every moment what the outcomes met so far
\* give, whatever the order in which the reads, fetches and encodings have
\* completed.
C21_NoContendedState ==
    /\ [](\A e \in Slots :
             exports[e].pc = "images" =>
                 exports[e].tree = Replay(NormalizeEmbeds(exports[e].input), exports[e].tasks, 1))
    /\ [][\A e \in Slots :
             (exports[e].pc = "images" /\ exports'[e].pc = "images") =>
                 \E img \in 1..Len(exports[e].tasks) :
                     \A j \in 1..Len(exports[e].tasks) :
                         j # img => /\ exports'[e].tree[j] = exports[e].tree[j]
                                    /\ exports'[e].tasks[j] = exports[e].tasks[j]]_vars

\* Two images of one export were inlined from different bytes, and the
\* second one was read and encoded while the first was still being read.
C21_Witness ==
    \E e \in Slots :
        /\ exports[e].pc = "images"
        /\ \E i, j \in 1..Len(exports[e].tasks) :
               /\ i < j
               /\ exports[e].tasks[i].st = "read"
               /\ Has(exports[e].tasks[j].log, "set")
               /\ exports[e].tasks[i].file \in FileIds
               /\ VaultFiles[exports[e].tasks[i].file].bytes # exports[e].tasks[j].buf

\* The terminal outcomes of an export that was started.
Completed(e) ==
    /\ exports[e].result = "exported"
    /\ WrittenBy(e) # {}
    /\ exports[e].prompt = IndexPath(exports[e].folder)
    /\ Count(exports[e].notices, NoticeFailed) = 0

Aborted(e) ==
    /\ exports[e].result \in FatalStages
    /\ WrittenBy(e) = {}
    /\ exports[e].prompt = <<>>
    /\ Count(exports[e].notices, NoticeFailed) = 1

\* Export e has passed the check of lines 98-102 and holds a container.
InFlight(e) == exports[e].pc \notin {"idle", "done"}

\* C22: when every awaited primitive settles in the end, an export that
\* was started reaches its end; at its end it is either completed or
\* aborted, never both, its container is released, and nothing happens to
\* it afterwards; the probing loop for a folder name is left after at most
\* as many rounds as there are folders.
C22_Termination ==
    /\ \A e \in Slots : InFlight(e) ~> (exports[e].pc = "done")
    /\ \A e \in Slots : (exports[e].pc = "exists") ~> (exports[e].pc # "exists")
    /\ [](\A e \in Slots :
             /\ exports[e].pc = "exists" => exports[e].i <= Cardinality(vaultPaths)
             /\ (exports[e].pc = "done" /\ exports[e].attached = 1) =>
                    /\ Completed(e) # Aborted(e)
                    /\ e \notin body
                    /\ exports[e].removed = 1)
    /\ [][\A e \in Slots : exports[e].pc = "done" => exports'[e] = exports[e]]_vars

\* An export that went twice round the probing loop has completed, its
\* container released.
C22_Witness ==
    \E e \in Slots :
        /\ exports[e].pc = "done"
        /\ exports[e].i >= 2
        /\ Completed(e)
        /\ e \notin body

\* A step of the task threw or rejected.
Threw(task) ==
    \E what \in {"decode-throw", "read-throw", "fetch-throw", "encode-throw"} : Has(task.log, what)

\* C23: when the percent-decoding, the read, the fetch or the encoding of
\* a node's task has thrown, the task has caught it and has settled, and
\* the node is the node the task started on: same reference, alt text,
\* border and attributes, while the tasks run and in the tree that is
\* written.
C23_UnchangedOnException ==
    \A e \in Slots :
        \A i \in 1..Len(exports[e].tasks) :
            LET task == exports[e].tasks[i]
                node == exports[e].tree[i]
                node0 == StartedOn(e, i)
            IN  Threw(task) =>
                    /\ Has(task.log, "caught")
                    /\ task.st = "done"
                    /\ exports[e].pc = "images" => node = node0
                    /\ node.kind = "img"
                    /\ node.src = node0.src
                    /\ node.alt = node0.alt
                    /\ node.border = node0.border
                    /\ node.attrs = node0.attrs

\* Two nodes of one export have met an exception each: one a reference
\* that cannot be decoded or a fetch that failed, the other, a node with
\* hint attributes, a read or an encoding that failed.
C23_Witness ==
    \E e \in Slots :
        /\ exports[e].pc \in {"images", "write"}
        /\ \E i, j \in 1..Len(exports[e].tasks) :
               /\ i # j
               /\ \/ Has(exports[e].tasks[i].log, "decode-throw")
                  \/ Has(exports[e].tasks[i].log, "fetch-throw")
               /\ \/ Has(exports[e].tasks[j].log, "read-throw")
                  \/ Has(exports[e].tasks[j].log, "encode-throw")
               /\ exports[e].tree[j].attrs # {}

\* Exports o and e are of documents with the same sanitized basename.
SameSafeBasename(o, e) ==
    /\ exports[o].file # NoDoc /\ exports[e].file # NoDoc
    /\ safeBasename(DocBasename[exports[o].file]) = safeBasename(DocBasename[exports[e].file])

NoActiveFile(e) == exports[e].result = "nofile"

\* C25: an invocation that finds no active file ends at once with the one
\* notice "No active file selected." and nothing else: no container, no
\* folder, no file, no prompt, no image task; the step changes nothing of
\* the vault, of the document body or of the other invocations, and
\* nothing happens to the invocation afterwards.
C25_NoActiveFileNoOp ==
    /\ [](\A e \in Slots :
             NoActiveFile(e) =>
                 /\ exports[e] = [Idle EXCEPT !.pc = "done", !.result = "nofile",
                                              !.notices = << <<"No active file selected.">> >>]
                 /\ e \notin body
                 /\ WrittenBy(e) = {})
    /\ [][\A e \in Slots :
             /\ (~NoActiveFile(e) /\ NoActiveFile(e)') =>
                    /\ activeFile = NoDoc
                    /\ exports[e] = Idle
                    /\ UNCHANGED <<vaultPaths, written, body, activeFile>>
                    /\ \A o \in Slots \ {e} : exports'[o] = exports[o]
             /\ NoActiveFile(e) => exports'[e] = exports[e]]_vars

\* An invocation found no active file while an earlier export was in
\* flight with its container attached, in a vault that holds folders.
C25_Witness ==
    \E e \in Slots : \E o \in Slots \ {e} :
        /\ NoActiveFile(e)
        /\ exports[o].pc \in {"render", "exists", "create", "images", "write"}
        /\ o \in body
        /\ vaultPaths # {}

\* The paths a step adds to the vault.
Created == vaultPaths' \ vaultPaths

\* C26: an export holds no folder before its rendering and its probing
\* are over, and none at all when rendering failed; the folder it holds is
\* never replaced by another; a step adds at most one path to the vault,
\* either the one folder of an export that awaited createFolder or the
\* index.html of an export inside the folder that export created before;
\* an export that aborted after it created its folder has left the
\* folder in the vault, empty, and has written nothing.
C26_FolderSideEffects ==
    /\ [](\A e \in Slots :
             LET x == exports[e]
             IN  /\ x.pc \in {"idle", "render", "exists", "create"} => x.folder = <<>>
                 /\ x.result \in {"nofile", "render-failed", "folder-failed"} => x.folder = <<>>
                 /\ x.folder # <<>> => x.folder \in vaultPaths
                 /\ \A w \in WrittenBy(e) : w.path = IndexPath(x.folder) /\ w.path \in vaultPaths
                 /\ (x.pc = "done" /\ x.result \in FatalStages /\ x.folder # <<>>) =>
                        /\ WrittenBy(e) = {}
                        /\ IndexPath(x.folder) \notin vaultPaths)
    /\ [][ /\ Cardinality(Created) <= 1
           /\ \A e \in Slots : exports[e].folder # <<>> => exports'[e].folder = exports[e].folder
           /\ \A p \in Created :
                  \E e \in Slots :
                      \/ /\ exports[e].pc = "create"
                         /\ exports[e].folder = <<>>
                         /\ exports'[e].folder = p
                         /\ written' = written
                      \/ /\ exports[e].pc = "write"
                         /\ exports[e].folder \in vaultPaths
                         /\ p = IndexPath(exports[e].folder)
                         /\ written' = written \cup {[path |-> p, by |-> e]}
                         /\ \A o \in Slots : exports'[o].folder = exports[o].folder ]_vars

\* One export has written index.html into its folder and another, whose
\* write failed, has left its own folder empty.
C26_Witness ==
    \E e \in Slots : \E o \in Slots \ {e} :
        /\ exports[e].result = "exported"
        /\ IndexPath(exports[e].folder) \in vaultPaths
        /\ exports[o].result = "write-failed"
        /\ exports[o].folder \in vaultPaths
        /\ IndexPath(exports[o].folder) \notin vaultPaths

====
